---- MODULE Spec2Model ----
(***************************************************************************)
(* A model of the promo-code service: the session whitelist and the        *)
(* sign-up / sign-in handlers (services/company_service.py,                *)
(* services/user_service.py, utils/whitelist.py, utils/auth.py), the promo *)
(* repository (utils/repository.py, schemas/business.py) and the like /    *)
(* unlike handlers (services/user_service.py).                             *)
(*                                                                         *)
(* Optional values (Python None) are sequences: <<>> is None, <<v>> is v.  *)
(* Row ids are the row's position in its table.                            *)
(***************************************************************************)
EXTENDS Integers, Sequences, FiniteSets, TLC

VARIABLES
    companies,      \* table "companies": sequence of rows, id = position
    users,          \* table "users": sequence of rows, id = position
    whitelist,      \* the redis sets, one per key "whitelist:<kind>:<id>"
    tokens,         \* every token create_access_token has made, jti = position
    reqs,           \* the sign-up / sign-in requests in flight, one per slot
    done,           \* the sign-ups / sign-ins that have returned, in order
    promos,         \* table "promos" with its categories and unique codes
    users_promos,   \* table "users_promos": the engagement rows
    comments,       \* table "comments": the comments users left on promos
    resp            \* the response of the last request handled

vars == <<companies, users, whitelist, tokens, reqs, done, promos, users_promos, comments, resp>>

----------------------------------------------------------------------------
(* Bounds of the model *)

MaxAccounts == 2
MaxJti == 3
MaxReq == 2
MaxPromos == 1
MaxEngagePromos == 2

Kinds == {"user", "company"}
Emails == {"a@x.io", "b@x.io"}
SignUpPasswords == {"Passw0rd!"}
SignInPasswords == {"Passw0rd!", "Wr0ngpass!"}
Ids == 1..MaxAccounts
Jtis == 1..MaxJti
Slots == 1..MaxReq

Null == <<>>
Some(v) == <<v>>

----------------------------------------------------------------------------
(* utils/general.py *)

hash_password(password_text) == <<"bcrypt", password_text>>

verify_password(password_text, password_hash) ==
    password_hash = <<"bcrypt", password_text>>

----------------------------------------------------------------------------
(* utils/whitelist.py: TokenWhiteList *)

\* A key that leaves the entity kind out (checks the sensitivity of C3).
WhitelistKey_OneNamespace(id, entity) == <<"whitelist:users", id>>

WhitelistKey(id, entity) ==
    IF entity = "user" THEN <<"whitelist:users", id>>
    ELSE IF entity = "company" THEN <<"whitelist:companies", id>>
    ELSE <<"ValueError", id>>

WhitelistKeys == {WhitelistKey(id, entity) : id \in Ids, entity \in Kinds}

add_jti_to_whitelist(wl, id, jti, entity) ==
    [wl EXCEPT ![WhitelistKey(id, entity)] = @ \cup {jti}]

check_jti_in_whitelist(wl, id, jti, entity) ==
    jti \in wl[WhitelistKey(id, entity)]

\* A flush that empties the set of every principal.
flush_all_jti_from_whitelist_Everyone(wl, id, entity) == [k \in DOMAIN wl |-> {}]

flush_all_jti_from_whitelist(wl, id, entity) ==
    [wl EXCEPT ![WhitelistKey(id, entity)] = {}]

----------------------------------------------------------------------------
(* utils/auth.py: the bearer dependencies of the access-gated routes *)

\* A presented credential: the payload of the bearer token and whether
\* jwt.decode accepts it ("ok"), rejects its signature or structure ("bad"),
\* finds it expired ("expired"), or no Authorization header came ("missing").
\* The payload of a token jwt.decode rejects is never read.
NoCredential == [id |-> 0, jti |-> 0, refresh |-> FALSE, sig |-> "missing"]

Credentials ==
    [id : Ids, jti : Jtis, refresh : BOOLEAN, sig : {"ok"}]
        \cup [id : {0}, jti : {0}, refresh : {FALSE}, sig : {"bad", "expired"}]
        \cup {NoCredential}

\* HTTPBearer(auto_error=True) answers a missing header itself; the status
\* is the installed FastAPI's (403 in older releases, 401 in newer ones).
HTTPBearerMissingStatus == {401, 403}

\* The verification without its refresh test (checks the sensitivity of C4).
verify_token_data_NoRefreshCheck(wl, token_data, entity) ==
    IF ~check_jti_in_whitelist(wl, token_data.id, token_data.jti, entity) THEN 403
    ELSE 200

verify_token_data(wl, token_data, entity) ==
    IF token_data.refresh THEN 403
    ELSE IF ~check_jti_in_whitelist(wl, token_data.id, token_data.jti, entity) THEN 403
    ELSE 200

\* The statuses TokenBearer.__call__ can end with (200: the route is entered).
TokenBearer_call(wl, cred, entity) ==
    IF cred.sig = "missing" THEN HTTPBearerMissingStatus
    ELSE IF cred.sig # "ok" THEN {403}
    ELSE {verify_token_data(wl, cred, entity)}

\* main.py: http_exception_handler maps an HTTPException to the response.
http_exception_handler(status_code) ==
    IF status_code = 401 THEN 401 ELSE status_code

----------------------------------------------------------------------------
(* services: create_access_token *)

create_access_token(id, is_refresh, entity) ==
    [id |-> id, refresh |-> is_refresh, kind |-> entity]

Table(kind) == IF kind = "company" THEN companies ELSE users

\* select ... where email == e; scalar_one_or_none()
RowsByEmail(table, email) == {i \in 1..Len(table) : table[i].email = email}

Idle == [op |-> "idle", kind |-> "none", email |-> "", password |-> "",
         pc |-> "idle", id |-> 0, jti |-> 0]

AuthResp(op, kind, status, id, jti) ==
    [op |-> op, kind |-> kind, status |-> status, id |-> id, jti |-> jti,
     refresh |-> FALSE, sig |-> "none", body |-> Null]

NoResp == AuthResp("none", "none", 0, 0, 0)

\* Requests in flight that will still create a token / insert a row.
PendingTokens == Cardinality({s \in Slots : reqs[s].pc # "idle" /\ reqs[s].jti = 0})
PendingRows(kind) ==
    Cardinality({s \in Slots : reqs[s].kind = kind /\ reqs[s].pc = "insert"})

----------------------------------------------------------------------------
(* Sign-up and sign-in.  A handler gives up control at each await on the    *)
(* database or on redis, so each of its steps between two awaits is one     *)
(* action and the steps of different requests interleave.                   *)

Reject(op, kind, status) ==
    /\ resp' = AuthResp(op, kind, http_exception_handler(status), 0, 0)
    /\ UNCHANGED <<companies, users, whitelist, tokens, reqs, done, promos, users_promos, comments>>

\* company_sign_up / user_sign_up, up to the email lookup and the 409.
SignUpCheck(s, kind, email, password) ==
    /\ reqs[s].pc = "idle"
    /\ LET rows == RowsByEmail(Table(kind), email) IN
       IF Cardinality(rows) > 1 THEN Reject("signup", kind, 500)
       ELSE IF rows # {} THEN Reject("signup", kind, 409)
       ELSE /\ Len(Table(kind)) + PendingRows(kind) < MaxAccounts
            /\ Len(tokens) + PendingTokens < MaxJti
            /\ reqs' = [reqs EXCEPT ![s] =
                          [op |-> "signup", kind |-> kind, email |-> email,
                           password |-> password, pc |-> "insert",
                           id |-> 0, jti |-> 0]]
            /\ UNCHANGED <<companies, users, whitelist, tokens, done, promos,
                           users_promos, comments, resp>>

\* create_company / session.add(model); commit.  companies.email is unique,
\* users.email is not.
SignUpInsert(s) ==
    /\ reqs[s].pc = "insert"
    /\ LET r == reqs[s]
           row == [email |-> r.email, password |-> hash_password(r.password)]
       IN IF r.kind = "company"
          THEN IF RowsByEmail(companies, r.email) # {}
               THEN /\ reqs' = [reqs EXCEPT ![s] = Idle]
                    /\ resp' = AuthResp("signup", "company", 500, 0, 0)
                    /\ UNCHANGED <<companies, users>>
               ELSE /\ companies' = Append(companies, row)
                    /\ reqs' = [reqs EXCEPT ![s] =
                                  [r EXCEPT !.pc = "add", !.id = Len(companies) + 1,
                                            !.email = "", !.password = ""]]
                    /\ UNCHANGED <<users, resp>>
          ELSE /\ users' = Append(users, row)
               /\ reqs' = [reqs EXCEPT ![s] =
                             [r EXCEPT !.pc = "add", !.id = Len(users) + 1,
                                       !.email = "", !.password = ""]]
               /\ UNCHANGED <<companies, resp>>
    /\ UNCHANGED <<whitelist, tokens, done, promos, users_promos, comments>>

\* create_access_token; add_jti_to_whitelist; return the token.
SignUpAdd(s) ==
    /\ reqs[s].pc = "add"
    /\ reqs[s].op = "signup"
    /\ LET r == reqs[s]
           jti == Len(tokens) + 1
       IN /\ tokens' = Append(tokens, create_access_token(r.id, FALSE, r.kind))
          /\ whitelist' = add_jti_to_whitelist(whitelist, r.id, jti, r.kind)
          /\ done' = Append(done, [jti |-> jti, op |-> "signup"])
          /\ resp' = AuthResp("signup", r.kind, 200, r.id, jti)
          /\ reqs' = [reqs EXCEPT ![s] = Idle]
    /\ UNCHANGED <<companies, users, promos, users_promos, comments>>

\* A sign-in that flushes the sessions of the account it found before it
\* verifies the password.
SignInLookup_FlushFirst(s, kind, email, password) ==
    /\ reqs[s].pc = "idle"
    /\ LET rows == RowsByEmail(Table(kind), email) IN
       IF Cardinality(rows) > 1 THEN Reject("signin", kind, 500)
       ELSE IF rows = {} THEN Reject("signin", kind, 401)
       ELSE LET id == CHOOSE i \in rows : TRUE IN
            IF ~verify_password(password, Table(kind)[id].password)
            THEN /\ whitelist' = flush_all_jti_from_whitelist(whitelist, id, kind)
                 /\ resp' = AuthResp("signin", kind, http_exception_handler(401), 0, 0)
                 /\ UNCHANGED <<companies, users, tokens, reqs, done, promos,
                                users_promos, comments>>
            ELSE /\ Len(tokens) + PendingTokens < MaxJti
                 /\ tokens' = tokens
                 /\ reqs' = [reqs EXCEPT ![s] =
                               [Idle EXCEPT !.op = "signin", !.kind = kind,
                                  !.pc = "flush", !.id = id]]
                 /\ UNCHANGED <<companies, users, whitelist, done, promos,
                                users_promos, comments, resp>>

\* company_sign_in / user_sign_in, up to the first redis call: the lookup
\* by email and verify_password; user_sign_in creates its token here, before
\* it flushes, company_sign_in after it has flushed.
SignInLookup(s, kind, email, password) ==
    /\ reqs[s].pc = "idle"
    /\ LET rows == RowsByEmail(Table(kind), email) IN
       IF Cardinality(rows) > 1 THEN Reject("signin", kind, 500)
       ELSE IF rows = {} THEN Reject("signin", kind, 401)
       ELSE LET id == CHOOSE i \in rows : TRUE IN
            IF ~verify_password(password, Table(kind)[id].password)
            THEN Reject("signin", kind, 401)
            ELSE /\ Len(tokens) + PendingTokens < MaxJti
                 /\ IF kind = "user"
                    THEN /\ tokens' = Append(tokens, create_access_token(id, FALSE, kind))
                         /\ reqs' = [reqs EXCEPT ![s] =
                                       [Idle EXCEPT !.op = "signin", !.kind = kind,
                                          !.pc = "flush", !.id = id,
                                          !.jti = Len(tokens) + 1]]
                    ELSE /\ tokens' = tokens
                         /\ reqs' = [reqs EXCEPT ![s] =
                                       [Idle EXCEPT !.op = "signin", !.kind = kind,
                                          !.pc = "flush", !.id = id]]
                 /\ UNCHANGED <<companies, users, whitelist, done, promos,
                                users_promos, comments, resp>>

\* flush_all_jti_from_whitelist
SignInFlush(s) ==
    /\ reqs[s].pc = "flush"
    /\ whitelist' = flush_all_jti_from_whitelist(whitelist, reqs[s].id, reqs[s].kind)
    /\ reqs' = [reqs EXCEPT ![s].pc = "add"]
    /\ UNCHANGED <<companies, users, tokens, done, promos, users_promos, comments, resp>>

\* (company: create_access_token;) add_jti_to_whitelist; return the token.
SignInAdd(s) ==
    /\ reqs[s].pc = "add"
    /\ reqs[s].op = "signin"
    /\ LET r == reqs[s]
           jti == IF r.jti = 0 THEN Len(tokens) + 1 ELSE r.jti
       IN /\ tokens' = IF r.jti = 0
                       THEN Append(tokens, create_access_token(r.id, FALSE, r.kind))
                       ELSE tokens
          /\ whitelist' = add_jti_to_whitelist(whitelist, r.id, jti, r.kind)
          /\ done' = Append(done, [jti |-> jti, op |-> "signin"])
          /\ resp' = AuthResp("signin", r.kind, 200, r.id, jti)
          /\ reqs' = [reqs EXCEPT ![s] = Idle]
    /\ UNCHANGED <<companies, users, promos, users_promos, comments>>

\* A request to an access-gated route of `entity` carrying `cred`:
\* AccessTokenCompanyBearer / AccessTokenUserBearer.
Authenticate(cred, entity) ==
    /\ \E status_code \in TokenBearer_call(whitelist, cred, entity) :
          resp' = [op |-> "auth", kind |-> entity,
                   status |-> http_exception_handler(status_code),
                   id |-> cred.id, jti |-> cred.jti, refresh |-> cred.refresh,
                   sig |-> cred.sig, body |-> Null]
    /\ UNCHANGED <<companies, users, whitelist, tokens, reqs, done, promos, users_promos, comments>>

InitStores ==
    /\ companies = <<>>
    /\ users = <<>>
    /\ whitelist = [k \in WhitelistKeys |-> {}]
    /\ tokens = <<>>
    /\ reqs = [s \in Slots |-> Idle]
    /\ done = <<>>
    /\ resp = NoResp

InitAuth ==
    /\ InitStores
    /\ promos = <<>>
    /\ users_promos = {}
    /\ comments = <<>>

NextAuth ==
    \/ \E s \in Slots, kind \in Kinds, email \in Emails, password \in SignUpPasswords :
          SignUpCheck(s, kind, email, password)
    \/ \E s \in Slots : SignUpInsert(s)
    \/ \E s \in Slots : SignUpAdd(s)
    \/ \E s \in Slots, kind \in Kinds, email \in Emails, password \in SignInPasswords :
          SignInLookup(s, kind, email, password)
    \/ \E s \in Slots : SignInFlush(s)
    \/ \E s \in Slots : SignInAdd(s)
    \/ \E cred \in Credentials, entity \in Kinds : Authenticate(cred, entity)

SpecAuth == InitAuth /\ [][NextAuth]_vars

----------------------------------------------------------------------------
(* schemas/business.py: the request bodies of the promo routes.  A date is  *)
(* a day number.                                                            *)

\* Python truthiness of an optional string / list / int.
TruthyStr(opt) == opt # Null /\ opt[1] # ""
TruthyList(opt) == opt # Null /\ opt[1] # <<>>
TruthyInt(opt) == opt # Null /\ opt[1] # 0

MaxCountLe == 100000000
PromoUniqueMaxLength == 5000
AgeLe == 100

\* Target: the field constraints of a target given in full or in part.
TargetFieldsValid(t) ==
    /\ \A f \in DOMAIN t \cap {"age_from", "age_until"} :
          t[f] # Null => (t[f][1] >= 0 /\ t[f][1] <= AgeLe)
    /\ "country" \in DOMAIN t => t.country # Null

\* PromoCreateRequest: the constraints pydantic checks field by field.
CreateFieldsValid(data) ==
    /\ data.max_count > 0 /\ data.max_count <= MaxCountLe
    /\ data.promo_unique # Null =>
          (Len(data.promo_unique[1]) >= 1 /\ Len(data.promo_unique[1]) <= PromoUniqueMaxLength)
    /\ data.target # Null => TargetFieldsValid(data.target[1])

\* The messages of the error responses (the Russian ones in translation).
MsgValidation == "request data error (validation)"
MsgCommonRequired == "promo_common must be provided for COMMON mode"
MsgIncorrect == "incorrect request data"
MsgWindow == "active_from should be less then active_until"
MsgNotFound == "promo not found"
MsgNotOwner == "promo does not belong to this company"
MsgBadData == "request data error"
MsgServerError == "internal server error"

\* The validator without its max_count test for UNIQUE (checks the
\* sensitivity of C6).
check_promo_codes_AnyMaxCount(data) ==
    IF data.mode = "COMMON" /\ ~TruthyStr(data.promo_common) THEN MsgCommonRequired
    ELSE IF data.mode = "COMMON" /\ TruthyList(data.promo_unique) THEN MsgIncorrect
    ELSE IF data.mode = "UNIQUE" /\ ~TruthyList(data.promo_unique) THEN MsgIncorrect
    ELSE IF data.mode = "UNIQUE" /\ TruthyStr(data.promo_common) THEN MsgIncorrect
    ELSE IF /\ data.active_from # Null /\ data.active_until # Null
            /\ data.active_from[1] >= data.active_until[1] THEN MsgWindow
    ELSE ""

\* PromoCreateRequest.check_promo_codes: the detail of the 400 it raises,
\* "" when it raises none.
check_promo_codes(data) ==
    IF data.mode = "COMMON" /\ ~TruthyStr(data.promo_common) THEN MsgCommonRequired
    ELSE IF data.mode = "COMMON" /\ TruthyList(data.promo_unique) THEN MsgIncorrect
    ELSE IF data.mode = "UNIQUE" /\ ~(data.max_count # 1) THEN MsgIncorrect
    ELSE IF data.mode = "UNIQUE" /\ ~TruthyList(data.promo_unique) THEN MsgIncorrect
    ELSE IF data.mode = "UNIQUE" /\ TruthyStr(data.promo_common) THEN MsgIncorrect
    ELSE IF /\ data.active_from # Null /\ data.active_until # Null
            /\ data.active_from[1] >= data.active_until[1] THEN MsgWindow
    ELSE ""

\* PromoPatch: the field constraints.
PatchFieldsValid(data) ==
    /\ "max_count" \in data.fields_set => data.max_count # Null
    /\ data.max_count # Null => (data.max_count[1] > 0 /\ data.max_count[1] <= MaxCountLe)
    /\ data.target # Null => TargetFieldsValid(data.target[1])

\* PromoPatch.check_data: the detail of the 400 it raises, "" when none.
check_data(data) ==
    IF /\ data.active_from # Null /\ data.active_until # Null
       /\ data.active_from[1] > data.active_until[1] THEN MsgWindow
    ELSE ""

----------------------------------------------------------------------------
(* utils/repository.py: PromoRepository; models/business.py: PromocodeORM *)

\* str(data.image_url)
Str(opt) == IF opt = Null THEN "None" ELSE opt[1]

TargetField(data, f) ==
    IF data.target # Null /\ f \in DOMAIN data.target[1] THEN data.target[1][f] ELSE Null

\* A create_promo that adds no PromoUniqueORM rows.
NewPromocodeORM_NoUniqueRows(data, company_id) ==
    [company_id |-> company_id,
     description |-> data.description,
     image_url |-> Some(Str(data.image_url)),
     age_from |-> TargetField(data, "age_from"),
     age_until |-> TargetField(data, "age_until"),
     country |-> TargetField(data, "country"),
     categories |-> IF TruthyList(TargetField(data, "categories"))
                    THEN TargetField(data, "categories")[1] ELSE <<>>,
     active_from |-> data.active_from,
     active_until |-> data.active_until,
     max_count |-> data.max_count,
     mode |-> data.mode,
     promo_common |-> data.promo_common,
     unique_promos |-> <<>>,
     active |-> TRUE,
     like_count |-> 0,
     used_count |-> 0]

\* The row create_promo builds, with the column defaults of PromocodeORM.
NewPromocodeORM(data, company_id) ==
    [company_id |-> company_id,
     description |-> data.description,
     image_url |-> Some(Str(data.image_url)),
     age_from |-> TargetField(data, "age_from"),
     age_until |-> TargetField(data, "age_until"),
     country |-> TargetField(data, "country"),
     categories |-> IF TruthyList(TargetField(data, "categories"))
                    THEN TargetField(data, "categories")[1] ELSE <<>>,
     active_from |-> data.active_from,
     active_until |-> data.active_until,
     max_count |-> data.max_count,
     mode |-> data.mode,
     promo_common |-> data.promo_common,
     unique_promos |-> IF data.mode = "UNIQUE" /\ data.promo_unique # Null
                       THEN data.promo_unique[1] ELSE <<>>,
     active |-> TRUE,
     like_count |-> 0,
     used_count |-> 0]

\* session.commit(): promos.country is declared Mapped[str], a NOT NULL
\* column; a row without a country is refused with an IntegrityError.
CommitAccepts(model) == model.country # Null

\* The PromoDTO get_company_promo_by_id and update_company_promo return.
PromoDTO(id, model) ==
    [id |-> id,
     company_id |-> model.company_id,
     description |-> model.description,
     image_url |-> model.image_url,
     active_from |-> model.active_from,
     active_until |-> model.active_until,
     target |-> [age_from |-> model.age_from, age_until |-> model.age_until,
                 country |-> model.country, categories |-> model.categories],
     max_count |-> model.max_count,
     mode |-> model.mode,
     active |-> model.active,
     like_count |-> model.like_count,
     used_count |-> model.used_count,
     promo_common |-> model.promo_common,
     promo_unique |-> IF model.unique_promos # <<>> THEN Some(model.unique_promos)
                      ELSE Null]

\* model_dump(exclude_unset=True) and "if value is not None": a top-level
\* field is assigned when the request set it and its value is not None.
Assigned(data, f) == f \in data.fields_set /\ data[f] # Null

\* update_company_promo, lines 274-291: the row with the patch applied.
ApplyPatch(model, data) ==
    LET top == [model EXCEPT
                  !.description = IF Assigned(data, "description")
                                  THEN data.description[1] ELSE @,
                  !.image_url = IF Assigned(data, "image_url") THEN data.image_url ELSE @,
                  !.max_count = IF Assigned(data, "max_count")
                                THEN data.max_count[1] ELSE @,
                  !.active_from = IF Assigned(data, "active_from")
                                  THEN data.active_from ELSE @,
                  !.active_until = IF Assigned(data, "active_until")
                                   THEN data.active_until ELSE @]
    IN IF data.target = Null THEN top
       ELSE LET t == data.target[1] IN
            [top EXCEPT
               !.age_from = IF "age_from" \in DOMAIN t THEN t.age_from ELSE @,
               !.age_until = IF "age_until" \in DOMAIN t THEN t.age_until ELSE @,
               !.country = IF "country" \in DOMAIN t THEN t.country ELSE @,
               !.categories = IF "categories" \in DOMAIN t /\ t.categories # Null
                              THEN t.categories[1] ELSE @]

\* The window check that lets equal dates through (checks the sensitivity
\* of C7).
WindowViolated_EqualAllowed(model) ==
    /\ model.active_from # Null
    /\ model.active_until # Null
    /\ model.active_from[1] > model.active_until[1]

\* update_company_promo, lines 292-296: TRUE when the window check raises.
WindowViolated(model) ==
    /\ model.active_from # Null
    /\ model.active_until # Null
    /\ model.active_from[1] >= model.active_until[1]

\* update_company_promo, line 304: TRUE when the age check raises.
AgeRangeViolated(model) ==
    /\ TruthyInt(model.age_from)
    /\ TruthyInt(model.age_until)
    /\ model.age_from[1] >= model.age_until[1]

\* The last request to a promo route and its response; `request` is the body
\* of a POST or PATCH request.
PromoResp(op, company_id, promo_id, status, detail, request, body) ==
    [op |-> op, company |-> company_id, promo |-> promo_id,
     status |-> http_exception_handler(status), detail |-> detail,
     request |-> request, body |-> body]

PromoFrame == UNCHANGED <<companies, users, whitelist, tokens, reqs, done, users_promos, comments>>

\* POST /business/promo: request validation, then create_promo.
CreatePromo(company_id, data) ==
    /\ IF ~CreateFieldsValid(data)
       THEN /\ promos' = promos
            /\ resp' = PromoResp("create", company_id, 0, 400, MsgValidation, Some(data), Null)
       ELSE IF check_promo_codes(data) # ""
       THEN /\ promos' = promos
            /\ resp' = PromoResp("create", company_id, 0, 400, check_promo_codes(data),
                                 Some(data), Null)
       ELSE IF ~CommitAccepts(NewPromocodeORM(data, company_id))
       THEN /\ promos' = promos
            /\ resp' = PromoResp("create", company_id, 0, 500, MsgServerError, Some(data),
                                 Null)
       ELSE /\ Len(promos) < MaxPromos
            /\ promos' = Append(promos, NewPromocodeORM(data, company_id))
            /\ resp' = PromoResp("create", company_id, Len(promos) + 1, 200, "", Some(data),
                                 Null)
    /\ PromoFrame

\* GET /business/promo/{id}: get_company_promo_by_id.
GetPromo(company_id, promo_id) ==
    /\ promos' = promos
    /\ resp' = IF promo_id \notin DOMAIN promos
               THEN PromoResp("get", company_id, promo_id, 404, MsgNotFound, Null, Null)
               ELSE IF promos[promo_id].company_id # company_id
               THEN PromoResp("get", company_id, promo_id, 403, MsgNotOwner, Null, Null)
               ELSE PromoResp("get", company_id, promo_id, 200, "", Null,
                              Some(PromoDTO(promo_id, promos[promo_id])))
    /\ PromoFrame

\* The update without its ownership test (checks the sensitivity of C8).
update_company_promo_AnyCompany(data, company_id, promo_id) ==
    IF promo_id \notin DOMAIN promos THEN <<404, MsgNotFound, Null>>
    ELSE LET model == ApplyPatch(promos[promo_id], data) IN
         IF WindowViolated(model) THEN <<404, MsgBadData, Null>>
         ELSE IF AgeRangeViolated(model) THEN <<404, MsgBadData, Null>>
         ELSE IF ~CommitAccepts(model) THEN <<500, MsgServerError, Null>>
         ELSE <<200, "", Some(model)>>

\* The update that commits the merged row before it checks the window and
\* the ages (checks the sensitivity of C20).
update_company_promo_CommitsFirst(data, company_id, promo_id) ==
    IF promo_id \notin DOMAIN promos THEN <<404, MsgNotFound, Null>>
    ELSE IF promos[promo_id].company_id # company_id THEN <<403, MsgNotOwner, Null>>
    ELSE LET model == ApplyPatch(promos[promo_id], data) IN
         IF ~CommitAccepts(model) THEN <<500, MsgServerError, Null>>
         ELSE IF WindowViolated(model) THEN <<404, MsgBadData, Some(model)>>
         ELSE IF AgeRangeViolated(model) THEN <<404, MsgBadData, Some(model)>>
         ELSE <<200, "", Some(model)>>

\* update_company_promo: <<status, detail, the row to commit>>.
update_company_promo(data, company_id, promo_id) ==
    IF promo_id \notin DOMAIN promos THEN <<404, MsgNotFound, Null>>
    ELSE IF promos[promo_id].company_id # company_id THEN <<403, MsgNotOwner, Null>>
    ELSE LET model == ApplyPatch(promos[promo_id], data) IN
         IF WindowViolated(model) THEN <<404, MsgBadData, Null>>
         ELSE IF AgeRangeViolated(model) THEN <<404, MsgBadData, Null>>
         ELSE IF ~CommitAccepts(model) THEN <<500, MsgServerError, Null>>
         ELSE <<200, "", Some(model)>>

\* PATCH /business/promo/{id}: request validation, then update_company_promo.
PatchPromo(company_id, promo_id, data) ==
    /\ IF ~PatchFieldsValid(data)
       THEN /\ promos' = promos
            /\ resp' = PromoResp("patch", company_id, promo_id, 400, MsgValidation,
                                 Some(data), Null)
       ELSE IF check_data(data) # ""
       THEN /\ promos' = promos
            /\ resp' = PromoResp("patch", company_id, promo_id, 400, check_data(data),
                                 Some(data), Null)
       ELSE LET r == update_company_promo(data, company_id, promo_id) IN
            /\ promos' = IF r[3] # Null THEN [promos EXCEPT ![promo_id] = r[3][1]]
                         ELSE promos
            /\ resp' = PromoResp("patch", company_id, promo_id, r[1], r[2], Some(data),
                                 IF r[3] # Null THEN Some(PromoDTO(promo_id, r[3][1]))
                                 ELSE Null)
    /\ PromoFrame

\* The requests the promo specification draws from.
Days == {Null, Some(1), Some(2)}
TargetYoung == [age_from |-> Some(1), age_until |-> Some(2), country |-> Some("RU"),
                categories |-> Some(<<"food">>)]

\* A target whose ages each pass ge=0, le=100 and are in the wrong order.
TargetInverted == [TargetYoung EXCEPT !.age_from = Some(2), !.age_until = Some(1)]

\* Every shape of codes, of max_count, of the window and of the target.
CreateRequestsAll ==
    [description : {"Ten percent off"},
     image_url : {Null, Some("https://x.io/sale.png")},
     target : {Null, Some(TargetYoung), Some(TargetInverted)},
     max_count : {0, 1, 2},
     active_from : Days,
     active_until : Days,
     mode : {"COMMON", "UNIQUE"},
     promo_common : {Null, Some("SALE10")},
     promo_unique : {Null, Some(<<>>), Some(<<"uniq-1", "uniq-2">>)}]

\* The requests for two uses whose codes fit their mode, with every window.
CreateRequests ==
    {data \in CreateRequestsAll :
        /\ data.max_count = 2
        /\ data.image_url = Null
        /\ data.target \in {Null, Some(TargetYoung)}
        /\ data.promo_unique # Some(<<>>)
        /\ (data.mode = "COMMON") = (data.promo_common # Null)
        /\ (data.mode = "UNIQUE") = (data.promo_unique # Null)}

\* A PATCH body: the values of PromoPatch (None by default) and the names of
\* the fields the body gave (model_fields_set).
PatchRequest(description, image_url, target, max_count, active_from, active_until, fields_set) ==
    [description |-> description, image_url |-> image_url, target |-> target,
     max_count |-> max_count, active_from |-> active_from,
     active_until |-> active_until, fields_set |-> fields_set]

\* Bodies that give values only: a field is either left out or not null.
PatchRequests ==
    {PatchRequest(Null, Null, t, m, af, au,
                  {f \in {"target", "max_count", "active_from", "active_until"} :
                      \/ f = "target" /\ t # Null
                      \/ f = "max_count" /\ m # Null
                      \/ f = "active_from" /\ af # Null
                      \/ f = "active_until" /\ au # Null}) :
        t \in {Null, Some([age_from |-> Some(2)])}, m \in {Null, Some(1)},
        af \in Days, au \in Days}

PromoIds == 1..(MaxPromos + 1)

\* Two companies have signed up.
RegisteredCompanies ==
    <<[email |-> "a@x.io", password |-> hash_password("Passw0rd!"), name |-> "Acme"],
      [email |-> "b@x.io", password |-> hash_password("Passw0rd!"), name |-> "Bolt"]>>

InitPromo ==
    /\ companies = RegisteredCompanies
    /\ users = <<>>
    /\ whitelist = [k \in WhitelistKeys |-> {}]
    /\ tokens = <<>>
    /\ reqs = [s \in Slots |-> Idle]
    /\ done = <<>>
    /\ promos = <<>>
    /\ users_promos = {}
    /\ comments = <<>>
    /\ resp = PromoResp("none", 0, 0, 0, "", Null, Null)

NextPromo ==
    \/ \E c \in DOMAIN companies, data \in CreateRequests : CreatePromo(c, data)
    \/ \E c \in DOMAIN companies, p \in PromoIds : GetPromo(c, p)
    \/ \E c \in DOMAIN companies, p \in PromoIds, data \in PatchRequests :
          PatchPromo(c, p, data)

SpecPromo == InitPromo /\ [][NextPromo]_vars

----------------------------------------------------------------------------
(* The PATCH route on one stored promo, for bodies that leave fields out,   *)
(* give them a value or give an explicit null.                              *)

\* The promo company 1 created: window 1..2, ages 1..2, category "food".
PatchStoredRequest ==
    [description |-> "Ten percent off", image_url |-> Null, target |-> Some(TargetYoung),
     max_count |-> 2, active_from |-> Some(1), active_until |-> Some(2), mode |-> "COMMON",
     promo_common |-> Some("SALE10"), promo_unique |-> Null]

\* <<given, value>> for description, active_from, active_until and target.
PatchRequestsGiven ==
    {PatchRequest(d[2], Null, t[2], Null, af[2], au[2],
                  {f \in {"description", "target", "active_from", "active_until"} :
                      \/ f = "description" /\ d[1]
                      \/ f = "target" /\ t[1]
                      \/ f = "active_from" /\ af[1]
                      \/ f = "active_until" /\ au[1]}) :
        d \in {<<FALSE, Null>>, <<TRUE, Some("Twenty percent off")>>},
        af \in {<<FALSE, Null>>, <<TRUE, Null>>, <<TRUE, Some(2)>>},
        au \in {<<FALSE, Null>>, <<TRUE, Some(3)>>},
        t \in {<<FALSE, Null>>,
               <<TRUE, Some([categories |-> Some(<<"gym">>)])>>,
               <<TRUE, Some([categories |-> Some(<<>>)])>>,
               <<TRUE, Some([categories |-> Null])>>,
               <<TRUE, Some([age_from |-> Null])>>,
               <<TRUE, Some([age_from |-> Some(2)])>>,
               <<TRUE, Some([age_from |-> Some(2), categories |-> Some(<<"gym">>)])>>}}

InitPatch ==
    /\ companies = RegisteredCompanies
    /\ users = <<>>
    /\ whitelist = [k \in WhitelistKeys |-> {}]
    /\ tokens = <<>>
    /\ users_promos = {}
    /\ comments = <<>>
    /\ reqs = [s \in Slots |-> Idle]
    /\ done = <<>>
    /\ promos = <<NewPromocodeORM(PatchStoredRequest, 1)>>
    /\ resp = PromoResp("none", 0, 0, 0, "", Null, Null)

NextPatch ==
    \/ \E c \in DOMAIN companies, p \in DOMAIN promos, data \in PatchRequestsGiven :
           PatchPromo(c, p, data)
    \/ \E c \in DOMAIN companies, p \in DOMAIN promos : GetPromo(c, p)

SpecPatch == InitPatch /\ [][NextPatch]_vars

\* Creation alone: one create request of any shape has arrived in slot 1;
\* the route handles it, and handles it again when the client repeats it.
CreateReq(company_id, data) == [op |-> "create", company |-> company_id, data |-> data]

HandleCreate(s) ==
    /\ reqs[s].op = "create"
    /\ CreatePromo(reqs[s].company, reqs[s].data)

InitCreate ==
    /\ companies = RegisteredCompanies
    /\ users = <<>>
    /\ whitelist = [k \in WhitelistKeys |-> {}]
    /\ tokens = <<>>
    /\ users_promos = {}
    /\ comments = <<>>
    /\ \E c \in DOMAIN RegisteredCompanies, data \in CreateRequestsAll :
          reqs = [s \in Slots |-> IF s = 1 THEN CreateReq(c, data) ELSE Idle]
    /\ done = <<>>
    /\ promos = <<>>
    /\ resp = PromoResp("none", 0, 0, 0, "", Null, Null)

NextCreate ==
    \/ \E s \in Slots : HandleCreate(s)
    \/ \E c \in DOMAIN companies, p \in PromoIds : GetPromo(c, p)

SpecCreate == InitCreate /\ [][NextCreate]_vars

----------------------------------------------------------------------------
(* utils/repository.py, api/business.py: the promos of a company, listed    *)

MaxListPromos == 3

\* .limit(limit).offset(offset) of an ordered result.
Page(order, limit, offset) ==
    SubSeq(order, offset + 1,
           IF offset + limit < Len(order) THEN offset + limit ELSE Len(order))

\* conditions: the company's promos, of the countries asked for if any.
ListMatching(ps, company_id, filter_query) ==
    {i \in DOMAIN ps :
        /\ ps[i].company_id = company_id
        /\ filter_query.country # Null
           => \E k \in DOMAIN filter_query.country[1] :
                  ps[i].country = Some(filter_query.country[1][k])}

\* The orders a result can come in.
RowOrders(ids) ==
    {f \in [1..Cardinality(ids) -> ids] :
        \A i, j \in 1..Cardinality(ids) : i # j => f[i] # f[j]}

\* a.desc() in PostgreSQL: NULL dates first, then the later date first.
DescNullsFirst(a, b) == a = Null \/ (b # Null /\ a[1] >= b[1])

SortKey(row, sort_by) ==
    IF sort_by = Some("active_from") THEN row.active_from ELSE row.active_until

\* order_by only when sort_by is set: without it SQL promises no order.
ListOrders(ps, ids, sort_by) ==
    IF sort_by = Null THEN RowOrders(ids)
    ELSE {f \in RowOrders(ids) :
             \A i \in 1..(Cardinality(ids) - 1) :
                 DescNullsFirst(SortKey(ps[f[i]], sort_by),
                                SortKey(ps[f[i + 1]], sort_by))}

\* get_company_promos whose total counts the rows of the page (checks the
\* sensitivity of C18).
get_company_promos_CountsPage(ps, company_id, filter_query) ==
    LET ids == ListMatching(ps, company_id, filter_query) IN
    {<<Len(Page(o, filter_query.limit, filter_query.offset)),
       [k \in DOMAIN Page(o, filter_query.limit, filter_query.offset) |->
            PromoDTO(Page(o, filter_query.limit, filter_query.offset)[k],
                     ps[Page(o, filter_query.limit, filter_query.offset)[k]])]>> :
        o \in ListOrders(ps, ids, filter_query.sort_by)}

\* get_company_promos: the <<total, page>> results the two queries can give.
get_company_promos(ps, company_id, filter_query) ==
    LET ids == ListMatching(ps, company_id, filter_query) IN
    {<<Cardinality(ids),
       [k \in DOMAIN Page(o, filter_query.limit, filter_query.offset) |->
            PromoDTO(Page(o, filter_query.limit, filter_query.offset)[k],
                     ps[Page(o, filter_query.limit, filter_query.offset)[k]])]>> :
        o \in ListOrders(ps, ids, filter_query.sort_by)}

ListReq(company_id, filter_query) ==
    [op |-> "list", company |-> company_id, filter |-> filter_query]

\* GET /business/promo: the page, and the total for the X-Total-Count header.
ListPromos(s) ==
    /\ reqs[s].op = "list"
    /\ \E r \in get_company_promos(promos, reqs[s].company, reqs[s].filter) :
           resp' = PromoResp("list", reqs[s].company, 0, 200, "", Some(reqs[s].filter), r)
    /\ UNCHANGED promos
    /\ PromoFrame

ListFilters ==
    [limit : {1, 2}, offset : {0, 1},
     sort_by : {Null, Some("active_from"), Some("active_until")},
     country : {Null, Some(<<"RU">>)}]

ListCreateRequest(country, active_from, active_until) ==
    [description |-> "Ten percent off", image_url |-> Null,
     target |-> Some([TargetYoung EXCEPT !.country = Some(country)]),
     max_count |-> 2, active_from |-> active_from, active_until |-> active_until,
     mode |-> "COMMON", promo_common |-> Some("SALE10"), promo_unique |-> Null]

\* Rows that create stores: two owners, two countries, windows open or set.
ListRows ==
    {NewPromocodeORM(ListCreateRequest("RU", Null, Null), 1),
     NewPromocodeORM(ListCreateRequest("RU", Some(1), Some(2)), 1),
     NewPromocodeORM(ListCreateRequest("RU", Some(2), Some(3)), 1),
     NewPromocodeORM(ListCreateRequest("US", Some(1), Some(3)), 1),
     NewPromocodeORM(ListCreateRequest("RU", Some(2), Some(3)), 2)}

InitList ==
    /\ companies = RegisteredCompanies
    /\ users = <<>>
    /\ whitelist = [k \in WhitelistKeys |-> {}]
    /\ tokens = <<>>
    /\ users_promos = {}
    /\ comments = <<>>
    /\ \E c \in DOMAIN RegisteredCompanies, f \in ListFilters :
          reqs = [s \in Slots |-> IF s = 1 THEN ListReq(c, f) ELSE Idle]
    /\ done = <<>>
    /\ promos \in [1..MaxListPromos -> ListRows]
    /\ resp = PromoResp("none", 0, 0, 0, "", Null, Null)

NextList == \E s \in Slots : ListPromos(s)

SpecList == InitList /\ [][NextList]_vars

----------------------------------------------------------------------------
(* services/user_service.py, api/user.py: like and unlike                   *)

MsgUnauthorized == "user is not authorized"

\* The users_promos row of a user for a promo: the empty set when none.
EngagementRows(up, user_id, promo_id) ==
    {r \in up : r.user_id = user_id /\ r.promo_id = promo_id}

\* like_promo that counts every call (checks the sensitivity of C9).
like_promo_CountsEveryCall(up, ps, user_id, promo_id) ==
    IF promo_id \notin DOMAIN ps THEN <<404, up, ps>>
    ELSE <<200,
           (up \ EngagementRows(up, user_id, promo_id))
               \cup {[user_id |-> user_id, promo_id |-> promo_id, liked |-> TRUE,
                      activated |-> FALSE]},
           [ps EXCEPT ![promo_id].like_count = @ + 1]>>

\* like_promo that never looks the promo up (checks the sensitivity of C11).
like_promo_NoPromoCheck(up, ps, user_id, promo_id) ==
    LET result_orm == EngagementRows(up, user_id, promo_id) IN
    <<200,
      (up \ result_orm)
          \cup {[user_id |-> user_id, promo_id |-> promo_id, liked |-> TRUE,
                 activated |-> FALSE]},
      IF promo_id \in DOMAIN ps /\ ~(\E r \in result_orm : r.liked)
      THEN [ps EXCEPT ![promo_id].like_count = @ + 1] ELSE ps>>

\* like_promo that sets the flag and leaves like_count alone (checks the
\* sensitivity of C12).
like_promo_NoCount(up, ps, user_id, promo_id) ==
    LET result_orm == EngagementRows(up, user_id, promo_id) IN
    IF promo_id \notin DOMAIN ps THEN <<404, up, ps>>
    ELSE <<200,
           (up \ result_orm)
               \cup {[user_id |-> user_id, promo_id |-> promo_id, liked |-> TRUE,
                      activated |-> FALSE]},
           ps>>

\* like_promo run alone: <<status, users_promos, promos>> after it.
like_promo(up, ps, user_id, promo_id) ==
    LET result_orm == EngagementRows(up, user_id, promo_id) IN
    IF promo_id \notin DOMAIN ps THEN <<404, up, ps>>
    ELSE IF result_orm = {}
    THEN <<200,
           up \cup {[user_id |-> user_id, promo_id |-> promo_id, liked |-> TRUE,
                     activated |-> FALSE]},
           [ps EXCEPT ![promo_id].like_count = @ + 1]>>
    ELSE IF \E r \in result_orm : ~r.liked
    THEN <<200,
           (up \ result_orm) \cup {[r EXCEPT !.liked = TRUE] : r \in result_orm},
           [ps EXCEPT ![promo_id].like_count = @ + 1]>>
    ELSE <<200, up, ps>>

\* unlike_promo that decrements whenever a row exists (checks the
\* sensitivity of C10).
unlike_promo_CountsEveryCall(up, ps, user_id, promo_id) ==
    LET result_orm == EngagementRows(up, user_id, promo_id) IN
    IF promo_id \notin DOMAIN ps THEN <<404, up, ps>>
    ELSE IF result_orm = {} THEN <<200, up, ps>>
    ELSE <<200,
           (up \ result_orm) \cup {[r EXCEPT !.liked = FALSE] : r \in result_orm},
           [ps EXCEPT ![promo_id].like_count = @ - 1]>>

\* unlike_promo run alone: <<status, users_promos, promos>> after it.
unlike_promo(up, ps, user_id, promo_id) ==
    LET result_orm == EngagementRows(up, user_id, promo_id) IN
    IF promo_id \notin DOMAIN ps THEN <<404, up, ps>>
    ELSE IF result_orm = {} THEN <<200, up, ps>>
    ELSE IF \E r \in result_orm : r.liked
    THEN <<200,
           (up \ result_orm) \cup {[r EXCEPT !.liked = FALSE] : r \in result_orm},
           [ps EXCEPT ![promo_id].like_count = @ - 1]>>
    ELSE <<200, up, ps>>

\* The last request to an engagement route and its response.
EngageResp(op, user_id, promo_id, status) ==
    [op |-> op, user |-> user_id, promo |-> promo_id,
     status |-> http_exception_handler(status),
     detail |-> IF status = 404 THEN MsgNotFound
                ELSE IF status = 401 THEN MsgUnauthorized ELSE ""]

is_exist_in_db(id) == id \in DOMAIN users

EngageFrame == UNCHANGED <<companies, users, whitelist, tokens, reqs, done, comments>>

\* POST /user/promo/{id}/like
LikePromo(user_id, promo_id) ==
    /\ IF is_exist_in_db(user_id)
       THEN LET r == like_promo(users_promos, promos, user_id, promo_id) IN
            /\ users_promos' = r[2]
            /\ promos' = r[3]
            /\ resp' = EngageResp("like", user_id, promo_id, r[1])
       ELSE /\ UNCHANGED <<users_promos, promos>>
            /\ resp' = EngageResp("like", user_id, promo_id, 401)
    /\ EngageFrame

\* DELETE /user/promo/{id}/like
UnlikePromo(user_id, promo_id) ==
    /\ IF is_exist_in_db(user_id)
       THEN LET r == unlike_promo(users_promos, promos, user_id, promo_id) IN
            /\ users_promos' = r[2]
            /\ promos' = r[3]
            /\ resp' = EngageResp("unlike", user_id, promo_id, r[1])
       ELSE /\ UNCHANGED <<users_promos, promos>>
            /\ resp' = EngageResp("unlike", user_id, promo_id, 401)
    /\ EngageFrame

\* Two users have signed up; a company has created MaxEngagePromos promos.
RegisteredUsers ==
    <<[email |-> "a@x.io", password |-> hash_password("Passw0rd!"),
       name |-> "Ann", surname |-> "Lee", avatar_url |-> "https://x.io/a.png"],
      [email |-> "b@x.io", password |-> hash_password("Passw0rd!"),
       name |-> "Bob", surname |-> "Ray", avatar_url |-> "https://x.io/b.png"]>>

EngageCreateRequest ==
    [description |-> "Ten percent off", image_url |-> Null, target |-> Some(TargetYoung),
     max_count |-> 2, active_from |-> Null, active_until |-> Null, mode |-> "COMMON",
     promo_common |-> Some("SALE10"), promo_unique |-> Null]

EngagePromoIds == 1..(MaxEngagePromos + 1)

InitEngage ==
    /\ companies = RegisteredCompanies
    /\ users = RegisteredUsers
    /\ whitelist = [k \in WhitelistKeys |-> {}]
    /\ tokens = <<>>
    /\ reqs = [s \in Slots |-> Idle]
    /\ done = <<>>
    /\ promos = [p \in 1..MaxEngagePromos |-> NewPromocodeORM(EngageCreateRequest, 1)]
    /\ users_promos = {}
    /\ comments = <<>>
    /\ resp = EngageResp("none", 0, 0, 0)

NextEngage ==
    \/ \E u \in DOMAIN users, p \in EngagePromoIds : LikePromo(u, p)
    \/ \E u \in DOMAIN users, p \in EngagePromoIds : UnlikePromo(u, p)

SpecEngage == InitEngage /\ [][NextEngage]_vars

----------------------------------------------------------------------------
(* services/user_service.py: like and unlike requests that overlap.  Each   *)
(* handler awaits three times: the select of the users_promos row, the get  *)
(* of the promo, and the commit that flushes what it decided to write.      *)
(* Every statement sees what was committed before it (READ COMMITTED).      *)

MaxLikeCount == 2
MaxRacePromos == 1

EngageIdle == [op |-> "idle", user |-> 0, promo |-> 0, pc |-> "idle",
               row |-> Null, count |-> 0]

\* scalar_one_or_none() of the row select: Null, or the liked flag read.
RowSnapshot(up, user_id, promo_id) ==
    IF EngagementRows(up, user_id, promo_id) = {} THEN Null
    ELSE Some(\E r \in EngagementRows(up, user_id, promo_id) : r.liked)

\* A commit that decides on the rows as they are stored when it runs (checks
\* the sensitivity of C13).
engage_commit_Recheck(up, ps, req) ==
    IF req.op = "like" THEN like_promo(up, ps, req.user, req.promo)
    ELSE unlike_promo(up, ps, req.user, req.promo)

\* session.commit() of like_promo / unlike_promo: the flush writes the row
\* and the absolute like_count computed from what the handler had read.
\* <<status, users_promos, promos>> after it; an INSERT of a primary key
\* that is stored by now fails the whole transaction.
engage_commit(up, ps, req) ==
    LET stored == EngagementRows(up, req.user, req.promo) IN
    IF req.op = "like" /\ req.row = Null
    THEN IF stored # {} THEN <<500, up, ps>>
         ELSE <<200,
                up \cup {[user_id |-> req.user, promo_id |-> req.promo,
                          liked |-> TRUE, activated |-> FALSE]},
                [ps EXCEPT ![req.promo].like_count = req.count + 1]>>
    ELSE IF req.op = "like" /\ req.row = Some(FALSE)
    THEN <<200,
           (up \ stored) \cup {[r EXCEPT !.liked = TRUE] : r \in stored},
           [ps EXCEPT ![req.promo].like_count = req.count + 1]>>
    ELSE IF req.op = "unlike" /\ req.row = Some(TRUE)
    THEN <<200,
           (up \ stored) \cup {[r EXCEPT !.liked = FALSE] : r \in stored},
           [ps EXCEPT ![req.promo].like_count = req.count - 1]>>
    ELSE <<200, up, ps>>

RaceFrame == UNCHANGED <<companies, users, whitelist, tokens, done, comments>>

\* The route is entered by a registered user and the handler selects the row.
EngageReadRow(s, op, user_id, promo_id) ==
    /\ reqs[s].pc = "idle"
    /\ is_exist_in_db(user_id)
    /\ reqs' = [reqs EXCEPT ![s] =
                    [op |-> op, user |-> user_id, promo |-> promo_id, pc |-> "promo",
                     row |-> RowSnapshot(users_promos, user_id, promo_id),
                     count |-> 0]]
    /\ UNCHANGED <<promos, users_promos, resp>>
    /\ RaceFrame

\* session.get(PromocodeORM): 404 when missing; unlike returns when it had
\* read no row; otherwise the handler holds the like_count it read.
EngageReadPromo(s) ==
    /\ reqs[s].pc = "promo"
    /\ IF reqs[s].promo \notin DOMAIN promos
       THEN /\ reqs' = [reqs EXCEPT ![s] = EngageIdle]
            /\ resp' = EngageResp(reqs[s].op, reqs[s].user, reqs[s].promo, 404)
       ELSE IF reqs[s].op = "unlike" /\ reqs[s].row = Null
       THEN /\ reqs' = [reqs EXCEPT ![s] = EngageIdle]
            /\ resp' = EngageResp(reqs[s].op, reqs[s].user, reqs[s].promo, 200)
       ELSE /\ reqs' = [reqs EXCEPT ![s].pc = "commit",
                                    ![s].count = promos[reqs[s].promo].like_count]
            /\ UNCHANGED resp
    /\ UNCHANGED <<promos, users_promos>>
    /\ RaceFrame

\* await session.commit() and the response.
EngageCommit(s) ==
    /\ reqs[s].pc = "commit"
    /\ LET r == engage_commit(users_promos, promos, reqs[s]) IN
       /\ \A p \in DOMAIN promos :
              /\ r[3][p].like_count <= MaxLikeCount
              /\ r[3][p].like_count >= 0 - MaxLikeCount
       /\ users_promos' = r[2]
       /\ promos' = r[3]
       /\ resp' = EngageResp(reqs[s].op, reqs[s].user, reqs[s].promo, r[1])
    /\ reqs' = [reqs EXCEPT ![s] = EngageIdle]
    /\ RaceFrame

RacePromoIds == 1..(MaxRacePromos + 1)

InitRace ==
    /\ companies = RegisteredCompanies
    /\ users = RegisteredUsers
    /\ whitelist = [k \in WhitelistKeys |-> {}]
    /\ tokens = <<>>
    /\ reqs = [s \in Slots |-> EngageIdle]
    /\ done = <<>>
    /\ promos = [p \in 1..MaxRacePromos |-> NewPromocodeORM(EngageCreateRequest, 1)]
    /\ users_promos = {}
    /\ comments = <<>>
    /\ resp = EngageResp("none", 0, 0, 0)

NextRace ==
    \/ \E s \in Slots, u \in DOMAIN users, p \in RacePromoIds :
           EngageReadRow(s, "like", u, p)
    \/ \E s \in Slots, u \in DOMAIN users, p \in RacePromoIds :
           EngageReadRow(s, "unlike", u, p)
    \/ \E s \in Slots : EngageReadPromo(s)
    \/ \E s \in Slots : EngageCommit(s)

SpecRace == InitRace /\ [][NextRace]_vars

----------------------------------------------------------------------------
(* services/user_service.py, api/user.py: comments.  A comment's id is its  *)
(* position in the table; its date is the server's clock when it was        *)
(* inserted, which grows from one request to the next.                      *)

MaxComments == 2
CommentTextMin == 10
CommentTextMax == 1000

MsgNoComment == "no such promo or comment"

Texts == {"Nice!", "Great promo, thanks!", "Works as promised."}
Limits == {1, 10}
Offsets == {0, 1}
CommentIds == 1..(MaxComments + 1)

\* schemas/user.py: the text constraint of CommentGet.
CommentTextValid(text) == Len(text) >= CommentTextMin /\ Len(text) <= CommentTextMax

\* CommentGet(id, text, date, author = CommentAuthor(name, surname, avatar_url)).
CommentGet(cs, id) ==
    [id |-> id, text |-> cs[id].text, date |-> cs[id].date,
     author |-> [name |-> users[cs[id].author].name,
                 surname |-> users[cs[id].author].surname,
                 avatar_url |-> users[cs[id].author].avatar_url]]

\* where(CommentORM.promo_id == promo_id)
CommentsOf(cs, promo_id) == {i \in DOMAIN cs : cs[i].promo_id = promo_id}

\* order_by(CommentORM.date.desc()) over the comments in ids.
RECURSIVE NewestFirst(_, _)
NewestFirst(cs, ids) ==
    IF ids = {} THEN <<>>
    ELSE LET m == CHOOSE i \in ids : \A j \in ids : cs[j].date <= cs[i].date
         IN <<m>> \o NewestFirst(cs, ids \ {m})

\* join on the promo and the comment id: the comment, when the pair resolves.
CommentResolves(cs, promo_id, comment_id) ==
    comment_id \in DOMAIN cs /\ cs[comment_id].promo_id = promo_id

\* The last request to a comment route and its response.
CommentResp(op, user_id, promo_id, comment_id, status, request, body) ==
    [op |-> op, user |-> user_id, promo |-> promo_id, comment |-> comment_id,
     status |-> http_exception_handler(status),
     detail |-> IF status = 404
                THEN (IF op \in {"get", "put"} THEN MsgNoComment ELSE MsgNotFound)
                ELSE IF status = 401 THEN MsgUnauthorized ELSE "",
     request |-> request, body |-> body]

CommentFrame ==
    UNCHANGED <<companies, users, whitelist, tokens, reqs, done, promos, users_promos>>

\* POST /user/promo/{id}/comments: the row is committed before the response
\* model is built from it.
AddComment(user_id, promo_id, text) ==
    /\ IF ~is_exist_in_db(user_id)
       THEN /\ UNCHANGED comments
            /\ resp' = CommentResp("add", user_id, promo_id, 0, 401, Some(text), Null)
       ELSE IF promo_id \notin DOMAIN promos
       THEN /\ UNCHANGED comments
            /\ resp' = CommentResp("add", user_id, promo_id, 0, 404, Some(text), Null)
       ELSE /\ Len(comments) < MaxComments
            /\ comments' = Append(comments,
                   [id |-> Len(comments) + 1, text |-> text, date |-> Len(comments) + 1,
                    author |-> user_id, promo_id |-> promo_id])
            /\ resp' = IF CommentTextValid(text)
                       THEN CommentResp("add", user_id, promo_id, Len(comments) + 1, 200,
                                        Some(text),
                                        Some(CommentGet(comments', Len(comments) + 1)))
                       ELSE CommentResp("add", user_id, promo_id, Len(comments) + 1, 500,
                                        Some(text), Null)
    /\ CommentFrame

\* get_comments_for_promo: <<status, body>>.
get_comments_for_promo(cs, ps, promo_id, limit, offset) ==
    IF promo_id \notin DOMAIN ps THEN <<404, Null>>
    ELSE LET result_orm == Page(NewestFirst(cs, CommentsOf(cs, promo_id)), limit, offset)
         IN IF \A k \in DOMAIN result_orm : CommentTextValid(cs[result_orm[k]].text)
            THEN <<200, Some([k \in DOMAIN result_orm |-> CommentGet(cs, result_orm[k])])>>
            ELSE <<500, Null>>

\* GET /user/promo/{id}/comments
ListComments(user_id, promo_id, limit, offset) ==
    /\ IF ~is_exist_in_db(user_id)
       THEN resp' = CommentResp("list", user_id, promo_id, 0, 401, <<limit, offset>>, Null)
       ELSE LET r == get_comments_for_promo(comments, promos, promo_id, limit, offset)
            IN resp' = CommentResp("list", user_id, promo_id, 0, r[1], <<limit, offset>>, r[2])
    /\ UNCHANGED comments
    /\ CommentFrame

\* GET /user/promo/{id}/comments/{comment_id}
GetComment(user_id, promo_id, comment_id) ==
    /\ IF ~is_exist_in_db(user_id)
       THEN resp' = CommentResp("get", user_id, promo_id, comment_id, 401, Null, Null)
       ELSE IF ~CommentResolves(comments, promo_id, comment_id)
       THEN resp' = CommentResp("get", user_id, promo_id, comment_id, 404, Null, Null)
       ELSE IF CommentTextValid(comments[comment_id].text)
       THEN resp' = CommentResp("get", user_id, promo_id, comment_id, 200, Null,
                                Some(CommentGet(comments, comment_id)))
       ELSE resp' = CommentResp("get", user_id, promo_id, comment_id, 500, Null, Null)
    /\ UNCHANGED comments
    /\ CommentFrame

\* put_comment: <<status, comments>> after it; the text is committed before
\* the response model is built.
put_comment(cs, text, comment_id, promo_id) ==
    IF ~CommentResolves(cs, promo_id, comment_id) THEN <<404, cs>>
    ELSE <<IF CommentTextValid(text) THEN 200 ELSE 500,
           [cs EXCEPT ![comment_id].text = text]>>

\* PUT /user/promo/{id}/comments/{comment_id}
PutComment(user_id, promo_id, comment_id, text) ==
    /\ IF ~is_exist_in_db(user_id)
       THEN /\ UNCHANGED comments
            /\ resp' = CommentResp("put", user_id, promo_id, comment_id, 401, Some(text),
                                   Null)
       ELSE LET r == put_comment(comments, text, comment_id, promo_id) IN
            /\ comments' = r[2]
            /\ resp' = CommentResp("put", user_id, promo_id, comment_id, r[1], Some(text),
                                   IF r[1] = 200 THEN Some(CommentGet(r[2], comment_id))
                                   ELSE Null)
    /\ CommentFrame

\* DELETE /user/promo/{id}/comments/{comment_id}: the route calls
\* user_service.delete_comment, a method UserService does not have; the
\* attribute error ends the request.
DeleteComment(user_id, promo_id, comment_id) ==
    /\ IF ~is_exist_in_db(user_id)
       THEN resp' = CommentResp("delete", user_id, promo_id, comment_id, 401, Null, Null)
       ELSE resp' = CommentResp("delete", user_id, promo_id, comment_id, 500, Null, Null)
    /\ UNCHANGED comments
    /\ CommentFrame

InitComments ==
    /\ companies = RegisteredCompanies
    /\ users = RegisteredUsers
    /\ whitelist = [k \in WhitelistKeys |-> {}]
    /\ tokens = <<>>
    /\ reqs = [s \in Slots |-> Idle]
    /\ done = <<>>
    /\ promos = [p \in 1..MaxEngagePromos |-> NewPromocodeORM(EngageCreateRequest, 1)]
    /\ users_promos = {}
    /\ comments = <<>>
    /\ resp = CommentResp("none", 0, 0, 0, 0, Null, Null)

NextComments ==
    \/ \E u \in DOMAIN users, p \in EngagePromoIds, t \in Texts : AddComment(u, p, t)
    \/ \E u \in DOMAIN users, p \in EngagePromoIds, l \in Limits, o \in Offsets :
           ListComments(u, p, l, o)
    \/ \E u \in DOMAIN users, p \in EngagePromoIds, c \in CommentIds : GetComment(u, p, c)
    \/ \E u \in DOMAIN users, p \in EngagePromoIds, c \in CommentIds, t \in Texts :
           PutComment(u, p, c, t)
    \/ \E u \in DOMAIN users, p \in EngagePromoIds, c \in CommentIds :
           DeleteComment(u, p, c)

SpecComments == InitComments /\ [][NextComments]_vars

----------------------------------------------------------------------------
(* services/user_service.py, api/user.py: the promo as a user sees it       *)

ViewTexts == {"Nice!", "Great promo, thanks!"}

\* get_promo whose comment count is that of every promo (checks the
\* sensitivity of C17).
get_promo_CountsAllComments(ps, up, cs, user_id, promo_id) ==
    IF promo_id \notin DOMAIN ps THEN <<404, Null>>
    ELSE LET result_orm == EngagementRows(up, user_id, promo_id) IN
         <<200,
           Some([promo_id |-> promo_id,
                 company_id |-> ps[promo_id].company_id,
                 company_name |-> companies[ps[promo_id].company_id].name,
                 description |-> ps[promo_id].description,
                 image_url |-> ps[promo_id].image_url,
                 active |-> ps[promo_id].active,
                 is_activated_by_user |-> \E r \in result_orm : r.activated,
                 like_count |-> ps[promo_id].like_count,
                 is_liked_by_user |-> \E r \in result_orm : r.liked,
                 comment_count |-> Len(cs)])>>

\* get_promo: <<status, PromoForUser>>; the flags are False when the user has
\* no users_promos row, the comment count is count(CommentORM.id) of the join.
get_promo(ps, up, cs, user_id, promo_id) ==
    IF promo_id \notin DOMAIN ps THEN <<404, Null>>
    ELSE LET result_orm == EngagementRows(up, user_id, promo_id) IN
         <<200,
           Some([promo_id |-> promo_id,
                 company_id |-> ps[promo_id].company_id,
                 company_name |-> companies[ps[promo_id].company_id].name,
                 description |-> ps[promo_id].description,
                 image_url |-> ps[promo_id].image_url,
                 active |-> ps[promo_id].active,
                 is_activated_by_user |-> \E r \in result_orm : r.activated,
                 like_count |-> ps[promo_id].like_count,
                 is_liked_by_user |-> \E r \in result_orm : r.liked,
                 comment_count |-> Cardinality(CommentsOf(cs, promo_id))])>>

\* GET /user/promo/{id}
GetPromoForUser(user_id, promo_id) ==
    /\ IF ~is_exist_in_db(user_id)
       THEN resp' = CommentResp("view", user_id, promo_id, 0, 401, Null, Null)
       ELSE LET r == get_promo(promos, users_promos, comments, user_id, promo_id)
            IN resp' = CommentResp("view", user_id, promo_id, 0, r[1], Null, r[2])
    /\ UNCHANGED comments
    /\ CommentFrame

NextView ==
    \/ \E u \in DOMAIN users, p \in EngagePromoIds : LikePromo(u, p)
    \/ \E u \in DOMAIN users, p \in EngagePromoIds : UnlikePromo(u, p)
    \/ \E u \in DOMAIN users, p \in EngagePromoIds, t \in ViewTexts : AddComment(u, p, t)
    \/ \E u \in DOMAIN users, p \in EngagePromoIds : GetPromoForUser(u, p)

SpecView == InitComments /\ [][NextView]_vars

----------------------------------------------------------------------------
(* Claims about the session whitelist and authenticate (SpecAuth) *)

\* The credential a client holds for the token with this jti.
TokenCredential(jti) ==
    [id |-> tokens[jti].id, jti |-> jti, refresh |-> tokens[jti].refresh, sig |-> "ok"]

TokenAuthenticates(jti, entity) ==
    200 \in TokenBearer_call(whitelist, TokenCredential(jti), entity)

SamePrincipal(j1, j2) ==
    tokens[j1].kind = tokens[j2].kind /\ tokens[j1].id = tokens[j2].id

\* C1: once a sign-in of a principal has returned, no token that an earlier
\* returned sign-up or sign-in gave the same principal authenticates on any
\* access-gated route.
C1_SignInRevokesEarlierTokens ==
    \A i, j \in 1..Len(done) :
        (i < j /\ done[j].op = "signin" /\ SamePrincipal(done[i].jti, done[j].jti))
            => \A entity \in Kinds : ~TokenAuthenticates(done[i].jti, entity)

\* C2: in every reachable state each whitelist set holds at most one token id.
C2_AtMostOneSession ==
    \A k \in WhitelistKeys : Cardinality(whitelist[k]) <= 1

\* C3: whenever a credential authenticates for entity kind K, its token id is
\* in the whitelist set keyed by (K, its principal id) and is the id of a
\* token that was issued to the principal of kind K with that id; so a token
\* issued to a user never authenticates on a company route, nor a company's
\* on a user route.
C3_AuthenticateOnlyWhitelisted ==
    \A cred \in Credentials, entity \in Kinds :
        200 \in TokenBearer_call(whitelist, cred, entity)
            => /\ cred.jti \in whitelist[WhitelistKey(cred.id, entity)]
               /\ cred.jti \in DOMAIN tokens
               /\ tokens[cred.jti].kind = entity
               /\ tokens[cred.jti].id = cred.id

\* A live token of user n is refused on a company route while company n has
\* a live session of its own.
C3_Witness ==
    /\ resp.op = "auth" /\ resp.kind = "company" /\ resp.status = 403
    /\ resp.sig = "ok" /\ ~resp.refresh
    /\ resp.jti \in DOMAIN tokens
    /\ tokens[resp.jti].kind = "user" /\ tokens[resp.jti].id = resp.id
    /\ TokenAuthenticates(resp.jti, "user")
    /\ whitelist[WhitelistKey(resp.id, "company")] # {}

\* C4: a credential whose payload is marked refresh never authenticates, on a
\* user route or a company route, whether or not its token id is whitelisted.
C4_RefreshNeverAuthenticates ==
    \A cred \in Credentials, entity \in Kinds :
        cred.refresh => 200 \notin TokenBearer_call(whitelist, cred, entity)

\* A correctly signed refresh token whose id is in the route's whitelist set
\* has been refused.
C4_Witness ==
    /\ resp.op = "auth" /\ resp.refresh /\ resp.sig = "ok" /\ resp.status = 403
    /\ resp.jti \in whitelist[WhitelistKey(resp.id, resp.kind)]

\* A credential that is missing, invalid, expired or revoked (its token id is
\* in no whitelist set).
Unauthenticated(cred) ==
    \/ cred.sig \in {"missing", "bad", "expired"}
    \/ \A k \in WhitelistKeys : cred.jti \notin whitelist[k]

\* C5: a request whose bearer token is missing, invalid, expired or revoked is
\* answered 401.
C5_UnauthenticatedIs401 ==
    [][\A cred \in Credentials, entity \in Kinds :
          (Authenticate(cred, entity) /\ Unauthenticated(cred)) => resp'.status = 401]_vars

----------------------------------------------------------------------------
(* Claims about creating, reading and patching promos *)

\* A create request whose codes do not fit its mode.
C6_CodesUnfit(data) ==
    \/ data.mode = "COMMON" /\ (data.promo_unique # Null \/ data.promo_common = Null)
    \/ data.mode = "UNIQUE" /\ \/ data.promo_common # Null
                               \/ data.promo_unique = Null
                               \/ data.max_count = 1

\* C6: create answers 400 and writes no row for every request of mode COMMON
\* that carries promo_unique or lacks promo_common, and for every request of
\* mode UNIQUE that carries promo_common, lacks promo_unique or has
\* max_count = 1.
C6_CreateRejectsUnfitCodes ==
    \A s \in Slots :
        (/\ reqs[s].op = "create"
         /\ resp.op = "create"
         /\ C6_CodesUnfit(reqs[s].data))
            => (resp.status = 400 /\ promos = <<>>)

\* A UNIQUE request with a pool of codes, no promo_common and a window in
\* order, but max_count = 1, has been refused with nothing stored.
C6_Witness ==
    /\ reqs[1].op = "create"
    /\ reqs[1].data.mode = "UNIQUE"
    /\ reqs[1].data.max_count = 1
    /\ reqs[1].data.promo_common = Null
    /\ TruthyList(reqs[1].data.promo_unique)
    /\ reqs[1].data.target # Null
    /\ reqs[1].data.active_from = Some(1) /\ reqs[1].data.active_until = Some(2)
    /\ resp.op = "create" /\ resp.status = 400 /\ resp.detail = MsgIncorrect
    /\ promos = <<>>

\* The window a request or a row has when both dates are set and the first
\* is not before the second.
C7_WindowBad(from, until) == from # Null /\ until # Null /\ from[1] >= until[1]

\* The date a row has after a patch: the patch's when it gives one.
C7_Merged(stored, given) == IF given # Null THEN given ELSE stored

C7_StoredWindowsGood ==
    \A p \in DOMAIN promos : ~C7_WindowBad(promos[p].active_from, promos[p].active_until)

\* A create whose window is bad is refused and stores nothing; one whose
\* window is good, and which nothing else refuses, stores a row with the
\* request's dates.  (A create step leaves its caller and body in resp', so
\* these are the only arguments with which the step is a CreatePromo step.)
C7_CreateStep ==
    resp'.op = "create" =>
        LET c == resp'.company
            data == resp'.request[1]
        IN CreatePromo(c, data) =>
              IF C7_WindowBad(data.active_from, data.active_until)
              THEN resp'.status # 200 /\ promos' = promos
              ELSE (/\ CreateFieldsValid(data)
                    /\ ~C6_CodesUnfit(data)
                    /\ TargetField(data, "country") # Null)
                       => /\ resp'.status = 200
                          /\ Len(promos') = Len(promos) + 1
                          /\ promos'[Len(promos')].active_from = data.active_from
                          /\ promos'[Len(promos')].active_until = data.active_until

\* A patch of an existing promo whose resulting window is bad is refused and
\* changes nothing; the owner's patch whose resulting window is good, and
\* which nothing else refuses, stores the resulting dates.  (A patch step
\* leaves its caller, promo id and body in resp', so these are the only
\* arguments with which the step is a PatchPromo step.)
C7_PatchStep ==
    (resp'.op = "patch" /\ resp'.promo \in DOMAIN promos) =>
        LET c == resp'.company
            p == resp'.promo
            data == resp'.request[1]
            from == C7_Merged(promos[p].active_from, data.active_from)
            until == C7_Merged(promos[p].active_until, data.active_until)
        IN PatchPromo(c, p, data) =>
              IF C7_WindowBad(from, until)
              THEN resp'.status # 200 /\ promos' = promos
              ELSE (/\ promos[p].company_id = c
                    /\ PatchFieldsValid(data)
                    /\ ~AgeRangeViolated(ApplyPatch(promos[p], data))
                    /\ CommitAccepts(ApplyPatch(promos[p], data)))
                       => /\ resp'.status = 200
                          /\ promos'[p].active_from = from
                          /\ promos'[p].active_until = until

C8_NotOwned(c, p) == p \in DOMAIN promos /\ promos[p].company_id # c

\* (A get or patch step leaves its caller, promo id and body in resp'.)
C8_GetStep ==
    resp'.op = "get" =>
        LET c == resp'.company
            p == resp'.promo
        IN GetPromo(c, p) =>
              /\ promos' = promos
              /\ p \notin DOMAIN promos => (resp'.status = 404 /\ resp'.body = Null)
              /\ C8_NotOwned(c, p) => (resp'.status = 403 /\ resp'.body = Null)
              /\ resp'.body # Null => promos[p].company_id = c

C8_PatchStep ==
    resp'.op = "patch" =>
        LET c == resp'.company
            p == resp'.promo
            data == resp'.request[1]
        IN PatchPromo(c, p, data) =>
              /\ (p \notin DOMAIN promos \/ C8_NotOwned(c, p))
                    => (promos' = promos /\ resp'.status # 200 /\ resp'.body = Null)
              /\ (PatchFieldsValid(data) /\ check_data(data) = "")
                    => /\ p \notin DOMAIN promos => resp'.status = 404
                       /\ C8_NotOwned(c, p) => resp'.status = 403
              /\ promos' # promos => promos[p].company_id = c

\* C8: get_by_id and patch of a promo that does not exist answer 404, of a
\* promo another company owns 403; the refused patch changes no field of any
\* promo, and neither operation returns or changes a promo the caller does
\* not own.
C8_OwnerScoped ==
    [][C8_GetStep /\ C8_PatchStep]_vars

\* A company's patch of another company's promo, setting a max_count the
\* promo does not have, has been answered 403.
C8_Witness ==
    /\ resp.op = "patch" /\ resp.status = 403
    /\ resp.promo \in DOMAIN promos
    /\ promos[resp.promo].company_id # resp.company
    /\ resp.request[1].max_count # Null
    /\ resp.request[1].max_count[1] # promos[resp.promo].max_count

----------------------------------------------------------------------------
(* Claims about like and unlike (SpecEngage) *)

C9_Liked(up, user_id, promo_id) ==
    \E r \in EngagementRows(up, user_id, promo_id) : r.liked

\* A like of an existing promo by a user who does not like it yet succeeds,
\* raises the promo's like_count by one and leaves the user's row liked.
\* (A like step leaves its user and promo id in resp'.)
C9_FirstLike ==
    (resp'.op = "like" /\ resp'.promo \in DOMAIN promos) =>
        LET u == resp'.user
            p == resp'.promo
        IN (LikePromo(u, p) /\ ~C9_Liked(users_promos, u, p))
              => /\ resp'.status = 200
                 /\ promos'[p].like_count = promos[p].like_count + 1
                 /\ C9_Liked(users_promos', u, p)

\* Once a like has succeeded, the same like called again succeeds and
\* leaves every promo and every engagement row as the first call left them.
C9_SecondLike ==
    (resp.op = "like" /\ resp.status = 200) =>
        LET again == like_promo(users_promos, promos, resp.user, resp.promo)
        IN /\ again[1] = 200
           /\ again[2] = users_promos
           /\ again[3] = promos
           /\ C9_Liked(users_promos, resp.user, resp.promo)

\* C9: like is idempotent: a second like by the same user of the same
\* existing promo leaves like_count and the engagement row as the first
\* left them, so like_count has risen by one in total and liked stays true.
C9_LikeIdempotent ==
    [][C9_FirstLike /\ C9_SecondLike']_vars

\* A like has succeeded on a promo that a second user likes too.
C9_Witness ==
    /\ resp.op = "like" /\ resp.status = 200
    /\ C9_Liked(users_promos, resp.user, resp.promo)
    /\ promos[resp.promo].like_count = 2

\* C10: unlike of an existing promo by a user who has no engagement row for
\* it, or a row with liked = false, answers 200, changes no like_count and
\* creates or changes no engagement row.  (An unlike step leaves its user
\* and promo id in resp'.)
C10_UnlikeWithoutLike ==
    [][(resp'.op = "unlike" /\ resp'.promo \in DOMAIN promos) =>
          LET u == resp'.user
              p == resp'.promo
          IN (UnlikePromo(u, p) /\ ~C9_Liked(users_promos, u, p))
                => /\ resp'.status = 200
                   /\ promos' = promos
                   /\ users_promos' = users_promos]_vars

\* An unlike by a user whose row for the promo has liked = false has been
\* answered 200 while another user's like of the promo stands.
C10_Witness ==
    /\ resp.op = "unlike" /\ resp.status = 200
    /\ resp.promo \in DOMAIN promos
    /\ EngagementRows(users_promos, resp.user, resp.promo) # {}
    /\ ~C9_Liked(users_promos, resp.user, resp.promo)
    /\ promos[resp.promo].like_count = 1

----------------------------------------------------------------------------
(* C11, C12: likes on a missing promo, like_count against the liked rows    *)

\* The rows of a promo whose liked flag is set.
LikedRows(up, promo_id) == {r \in up : r.promo_id = promo_id /\ r.liked}

\* C11: a like on a promo id that does not exist is answered 404 "not found",
\* creates no engagement row and changes no like_count.
C11_LikeMissingPromo ==
    [][(/\ resp'.op = "like"
        /\ resp'.promo \notin DOMAIN promos
        /\ LikePromo(resp'.user, resp'.promo))
       => /\ resp'.status = 404
          /\ resp'.detail = MsgNotFound
          /\ users_promos' = users_promos
          /\ promos' = promos]_vars

\* A like on a missing promo was answered while other promos carry likes.
C11_Witness ==
    /\ resp.op = "like"
    /\ resp.promo \notin DOMAIN promos
    /\ resp.status = 404
    /\ \E r \in users_promos : r.user_id = resp.user /\ r.liked

\* C12: with likes and unlikes run one at a time, every promo's like_count
\* is the number of its engagement rows whose liked flag is true.
C12_LikeCountMatchesRows ==
    \A p \in DOMAIN promos :
        promos[p].like_count = Cardinality(LikedRows(users_promos, p))

\* One promo is liked by both users while another has a row that was unliked.
C12_Witness ==
    \E p, q \in DOMAIN promos :
        /\ p # q
        /\ promos[p].like_count = 2
        /\ \E r \in users_promos : r.promo_id = q /\ ~r.liked

----------------------------------------------------------------------------
(* C13: two likes of one user on one promo that overlap                     *)

\* The like in slot s commits on a row it read as not liked while the row
\* stored by now is liked.
C13_StaleLike(s) ==
    /\ reqs[s].op = "like"
    /\ reqs[s].pc = "commit"
    /\ reqs[s].row = Some(FALSE)
    /\ RowSnapshot(users_promos, reqs[s].user, reqs[s].promo) = Some(TRUE)

\* C13: a like that read the engagement row before another like of the same
\* user committed, and like_count after it, commits a like_count one above
\* what it read while the set of liked rows stays as it is: like_count
\* then differs from the number of users whose row has liked = true.
C13_StaleLikeCountsTwice ==
    [][\A s \in Slots :
          (C13_StaleLike(s) /\ EngageCommit(s))
          => /\ resp'.status = 200
             /\ promos'[reqs[s].promo].like_count = reqs[s].count + 1
             /\ LikedRows(users_promos', reqs[s].promo)
                    = LikedRows(users_promos, reqs[s].promo)]_vars

\* Only one user ever liked the promo, that user's like was just answered
\* 200, and like_count is 2 for the one liked row.
C13_Witness ==
    /\ resp.op = "like"
    /\ resp.status = 200
    /\ resp.promo \in DOMAIN promos
    /\ \A r \in users_promos : r.user_id = resp.user
    /\ Cardinality(LikedRows(users_promos, resp.promo)) = 1
    /\ promos[resp.promo].like_count = 2

----------------------------------------------------------------------------
(* C14 - C16: listing, deleting and replacing comments                      *)

\* The comments of a promo that are newer than the comment with the id.
C14_Newer(cs, promo_id, id) ==
    {i \in CommentsOf(cs, promo_id) : cs[i].date > cs[id].date}

\* What list_comments is to return for a stored promo: comments of that
\* promo only, newest first, the first offset of them skipped, at most limit,
\* each with its author's name and surname.
C14_PageOf(body, cs, promo_id, limit, offset) ==
    /\ Len(body) <= limit
    /\ \A k \in DOMAIN body :
           /\ body[k].id \in CommentsOf(cs, promo_id)
           /\ body[k].text = cs[body[k].id].text
           /\ Cardinality(C14_Newer(cs, promo_id, body[k].id)) = offset + k - 1
           /\ body[k].author.name = users[cs[body[k].id].author].name
           /\ body[k].author.surname = users[cs[body[k].id].author].surname
    /\ \A i \in CommentsOf(cs, promo_id) :
           LET rank == Cardinality(C14_Newer(cs, promo_id, i)) IN
           (rank >= offset /\ rank < offset + limit)
               => \E k \in DOMAIN body : body[k].id = i

\* C14: list_comments on a stored promo returns exactly that page (so the
\* comment added last comes first for offset 0), and fails with 404 when the
\* promo does not exist.
C14_ListNewestFirst ==
    [][(/\ resp'.op = "list"
        /\ ListComments(resp'.user, resp'.promo, resp'.request[1], resp'.request[2]))
       => IF resp'.promo \notin DOMAIN promos
          THEN resp'.status = 404
          ELSE /\ resp'.status = 200
               /\ C14_PageOf(resp'.body[1], comments, resp'.promo,
                             resp'.request[1], resp'.request[2])]_vars

\* C15: delete_comment on a pair that resolves succeeds and removes the
\* comment (get_comment on the pair would then find nothing, and the promo
\* has one comment fewer); on a pair that does not resolve it fails with 404.
C15_DeleteRemoves ==
    [][(/\ resp'.op = "delete"
        /\ DeleteComment(resp'.user, resp'.promo, resp'.comment))
       => IF CommentResolves(comments, resp'.promo, resp'.comment)
          THEN /\ resp'.status \in {200, 204}
               /\ ~CommentResolves(comments', resp'.promo, resp'.comment)
               /\ Cardinality(CommentsOf(comments', resp'.promo))
                      = Cardinality(CommentsOf(comments, resp'.promo)) - 1
          ELSE resp'.status = 404]_vars

\* C16: replace_comment_text by a registered user who is not the author, on
\* a pair that resolves, succeeds, stores the new text and leaves the
\* comment's id, author, promo and date as they were.
C16_AnyUserReplaces ==
    [][(/\ resp'.op = "put"
        /\ PutComment(resp'.user, resp'.promo, resp'.comment, resp'.request[1])
        /\ CommentResolves(comments, resp'.promo, resp'.comment)
        /\ resp'.user # comments[resp'.comment].author)
       => /\ resp'.status = 200
          /\ comments' = [comments EXCEPT ![resp'.comment].text = resp'.request[1]]
          /\ resp'.body[1].text = resp'.request[1]]_vars

----------------------------------------------------------------------------
(* C17: the promo view of a user                                            *)

\* C17: after likes, unlikes and comments, get_promo_for_user(U, P) on a
\* stored promo returns the liked and activated flags of U's engagement row
\* for P (both false without a row), the promo's like_count and the number
\* of comments on P; on a promo that does not exist it fails with 404.
C17_ViewMatchesState ==
    resp.op = "view"
    => IF resp.promo \notin DOMAIN promos
       THEN resp.status = 404 /\ resp.body = Null
       ELSE /\ resp.status = 200
            /\ LET view == resp.body[1]
                   rows == EngagementRows(users_promos, resp.user, resp.promo)
               IN /\ view.is_liked_by_user = (\E r \in rows : r.liked)
                  /\ view.is_activated_by_user = (\E r \in rows : r.activated)
                  /\ rows = {} => (~view.is_liked_by_user /\ ~view.is_activated_by_user)
                  /\ view.like_count = promos[resp.promo].like_count
                  /\ view.comment_count
                         = Cardinality({i \in DOMAIN comments :
                                            comments[i].promo_id = resp.promo})

\* A user who liked the promo views it with both users' likes and one of two
\* comments counted, the other comment being on another promo.
C17_Witness ==
    /\ resp.op = "view"
    /\ resp.status = 200
    /\ resp.body[1].is_liked_by_user
    /\ resp.body[1].like_count = 2
    /\ resp.body[1].comment_count = 1
    /\ Len(comments) = 2

----------------------------------------------------------------------------
(* C18: the promos of a company, listed                                     *)

\* The stored promos of the company that match the country filter.
C18_Matching(company_id, filter_query) ==
    {i \in DOMAIN promos :
        /\ promos[i].company_id = company_id
        /\ filter_query.country # Null
           => \E k \in DOMAIN filter_query.country[1] :
                  promos[i].country[1] = filter_query.country[1][k]}

C18_Date(dto, sort_by) ==
    IF sort_by = Some("active_from") THEN dto.active_from ELSE dto.active_until

\* C18: list_for_company returns only promos of the company that match the
\* country filter, each once, as many as remain after offset but at most
\* limit, and a total equal to the number of all matching promos whatever
\* limit and offset are; with sort_by set the page runs by that date
\* descending and no promo left off before the page has an earlier date.
C18_ListPageAndTotal ==
    resp.op = "list"
    => LET f == resp.request[1]
           total == resp.body[1]
           page == resp.body[2]
           matching == C18_Matching(resp.company, f)
           n == Cardinality(matching)
           rest == IF n > f.offset THEN n - f.offset ELSE 0
       IN /\ resp.status = 200
          /\ total = n
          /\ Len(page) = (IF rest < f.limit THEN rest ELSE f.limit)
          /\ \A k \in DOMAIN page :
                 /\ page[k].id \in matching
                 /\ page[k] = PromoDTO(page[k].id, promos[page[k].id])
          /\ \A k, l \in DOMAIN page : k # l => page[k].id # page[l].id
          /\ f.sort_by # Null
             => /\ \A k, l \in DOMAIN page :
                       (k < l /\ C18_Date(page[k], f.sort_by) # Null
                              /\ C18_Date(page[l], f.sort_by) # Null)
                       => C18_Date(page[k], f.sort_by)[1] >= C18_Date(page[l], f.sort_by)[1]
                /\ \A k \in DOMAIN page :
                       C18_Date(page[k], f.sort_by) # Null
                       => Cardinality({i \in matching :
                              /\ SortKey(promos[i], f.sort_by) # Null
                              /\ SortKey(promos[i], f.sort_by)[1]
                                     > C18_Date(page[k], f.sort_by)[1]})
                              <= f.offset + k - 1

\* A sorted, filtered second page of one promo out of two that match, while
\* a third stored promo does not match.
C18_Witness ==
    /\ resp.op = "list"
    /\ resp.request[1].sort_by # Null
    /\ resp.request[1].country # Null
    /\ resp.request[1].offset = 1
    /\ resp.body[1] = 2
    /\ Len(resp.body[2]) = 1
    /\ Len(promos) > 2

----------------------------------------------------------------------------
(* C19, C20: what a patch changes, and what a rejected patch leaves         *)

\* The promo's top-level fields a patch can give, and the stored value that
\* stands for a requested one.
C19_TopFields == {"description", "active_from", "active_until"}
C19_Stored(f, value) == IF f = "description" /\ value # Null THEN value[1] ELSE value

\* C19: after a successful patch every field the request gave holds the
\* requested value and every field it left out holds its stored value; when
\* the request gave a category list the promo's categories are that list.
C19_PatchChangesSetFields ==
    [][(/\ resp'.op = "patch"
        /\ resp'.status = 200
        /\ PatchPromo(resp'.company, resp'.promo, resp'.request[1]))
       => LET data == resp'.request[1]
              old == promos[resp'.promo]
              new == promos'[resp'.promo]
              t == IF data.target = Null THEN <<>> ELSE data.target[1]
          IN /\ \A f \in C19_TopFields :
                    new[f] = IF f \in data.fields_set THEN C19_Stored(f, data[f])
                             ELSE old[f]
             /\ \A f \in {"age_from", "age_until", "country"} :
                    new[f] = IF f \in DOMAIN t THEN t[f] ELSE old[f]
             /\ new.categories = IF "categories" \in DOMAIN t /\ t.categories # Null
                                 THEN t.categories[1] ELSE old.categories
             /\ \A f \in {"company_id", "image_url", "max_count", "mode", "promo_common",
                          "unique_promos", "active", "like_count", "used_count"} :
                    new[f] = old[f]]_vars

\* C20: a patch rejected because the merged promo breaks the window or the
\* age range leaves the stored promos, categories included, as they were.
C20_RejectedPatchKeepsPromo ==
    [][(/\ resp'.op = "patch"
        /\ resp'.detail = MsgBadData
        /\ PatchPromo(resp'.company, resp'.promo, resp'.request[1]))
       => /\ resp'.status = 404
          /\ promos' = promos]_vars

\* A patch that gave a new description and new categories was rejected for
\* the ages it merged, and the promo has its old description and categories.
C20_Witness ==
    /\ resp.op = "patch"
    /\ resp.status = 404
    /\ resp.detail = MsgBadData
    /\ "description" \in resp.request[1].fields_set
    /\ resp.request[1].target # Null
    /\ "categories" \in DOMAIN resp.request[1].target[1]
    /\ resp.request[1].target[1].categories = Some(<<"gym">>)
    /\ promos[resp.promo].categories = <<"food">>
    /\ promos[resp.promo].description = "Ten percent off"

----------------------------------------------------------------------------
(* C21 - C24: what create and patch store                                   *)

\* C21: every stored promo with both ages set has age_from <= age_until.
C21_StoredAgesOrdered ==
    \A p \in DOMAIN promos :
        (promos[p].age_from # Null /\ promos[p].age_until # Null)
            => promos[p].age_from[1] <= promos[p].age_until[1]

\* C22: every stored promo has max_count > 0, and no stored UNIQUE promo has
\* max_count = 1.
C22_StoredMaxCount ==
    \A p \in DOMAIN promos :
        /\ promos[p].max_count > 0
        /\ promos[p].mode = "UNIQUE" => promos[p].max_count # 1

\* The codes of a stored promo fit its mode.
C23_CodesFitMode(model) ==
    /\ model.mode = "COMMON" => (model.promo_common # Null /\ model.unique_promos = <<>>)
    /\ model.mode = "UNIQUE" => (model.unique_promos # <<>> /\ model.promo_common = Null)

\* C23: a stored COMMON promo has a shared code and no unique rows, a stored
\* UNIQUE promo has at least one unique row and no shared code, and a patch
\* changes neither the mode nor the codes of any promo.
C23_ModeAndCodes ==
    /\ [](\A p \in DOMAIN promos : C23_CodesFitMode(promos[p]))
    /\ [][(resp'.op = "patch" /\ PatchPromo(resp'.company, resp'.promo, resp'.request[1]))
            => \A p \in DOMAIN promos :
                   /\ promos'[p].mode = promos[p].mode
                   /\ promos'[p].promo_common = promos[p].promo_common
                   /\ promos'[p].unique_promos = promos[p].unique_promos]_vars

\* A patch of a UNIQUE promo that changed its max_count was applied, and the
\* promo has its unique codes and no shared code.
C23_Witness ==
    /\ resp.op = "patch"
    /\ resp.status = 200
    /\ "max_count" \in resp.request[1].fields_set
    /\ promos[resp.promo].mode = "UNIQUE"
    /\ Len(promos[resp.promo].unique_promos) >= 1
    /\ promos[resp.promo].promo_common = Null

\* A create request that request validation lets through.
C24_Accepted(data) == CreateFieldsValid(data) /\ check_promo_codes(data) = ""

\* The body of a GET carries what the create request gave.
C24_SameAsGiven(body, data) ==
    /\ body.description = data.description
    /\ body.image_url = data.image_url
    /\ body.target.age_from = TargetField(data, "age_from")
    /\ body.target.age_until = TargetField(data, "age_until")
    /\ body.target.country = TargetField(data, "country")
    /\ body.target.categories = IF TargetField(data, "categories") # Null
                                THEN TargetField(data, "categories")[1] ELSE <<>>
    /\ body.active_from = data.active_from
    /\ body.active_until = data.active_until
    /\ body.max_count = data.max_count
    /\ body.mode = data.mode
    /\ body.promo_common = data.promo_common
    /\ body.promo_unique = data.promo_unique

\* C24: a create request accepted by validation, one without an image URL or
\* without targeting included, is stored, and a following get by its owner
\* returns the description, image URL, targeting, window, max_count, mode and
\* codes the request gave.
C24_CreateThenGet ==
    C24_Accepted(reqs[1].data) =>
        /\ resp.op = "create" => resp.status = 200
        /\ (resp.op = "get" /\ resp.company = reqs[1].company /\ resp.promo \in DOMAIN promos)
               => (resp.status = 200 /\ C24_SameAsGiven(resp.body[1], reqs[1].data))

----------------------------------------------------------------------------
(* C25 - C30: accounts, the whitelist, likes and comments                   *)

\* C25: a sign-up with an email that a record of the same kind already has
\* is answered 409, adds no record, issues no token and leaves the whitelist
\* as it was.
C25_SignUpTakenEmail ==
    [][\A s \in Slots, kind \in Kinds, email \in Emails, password \in SignUpPasswords :
          (SignUpCheck(s, kind, email, password) /\ RowsByEmail(Table(kind), email) # {})
              => /\ resp'.op = "signup"
                 /\ resp'.status = 409
                 /\ UNCHANGED <<companies, users, tokens, whitelist>>
                 /\ reqs'[s].pc = "idle"]_vars

\* C26: in every reachable state, the states reached by interleaved like and
\* unlike requests of different users on one promo included, the like_count
\* of every promo is at least 0.
C26_LikeCountNotNegative == \A p \in DOMAIN promos : promos[p].like_count >= 0

\* No two rows of a table hold the same email.
C27_EmailsDistinct(table) ==
    \A i, j \in 1..Len(table) : table[i].email = table[j].email => i = j

\* C27: in every reachable state, the states reached by two sign-ups with one
\* email that interleave their lookup and their insert included, no two user
\* records share an email and no two company records share an email.
C27_OneRecordPerEmail == C27_EmailsDistinct(users) /\ C27_EmailsDistinct(companies)

\* A sign-in that names an unknown email or gives a wrong password.
C28_Fails(kind, email, password) ==
    \A i \in RowsByEmail(Table(kind), email) :
        ~verify_password(password, Table(kind)[i].password)

\* C28: a sign-in that fails, for an unknown email or a wrong password,
\* leaves the whitelist as it was, and every token that authenticated before
\* it still authenticates after it.
C28_FailedSignInKeepsSessions ==
    [][\A s \in Slots, kind \in Kinds, email \in Emails, password \in SignInPasswords :
          (SignInLookup(s, kind, email, password) /\ C28_Fails(kind, email, password))
              => /\ whitelist' = whitelist
                 /\ reqs'[s].pc = "idle"
                 /\ \A jti \in DOMAIN tokens, k \in Kinds :
                        TokenAuthenticates(jti, k) => TokenAuthenticates(jti, k)']_vars

\* A sign-in was refused while both accounts of its kind were registered (so
\* its password was wrong) and a token of that kind is live.
C28_Witness ==
    /\ resp.op = "signin"
    /\ resp.status = 401
    /\ Len(Table(resp.kind)) = MaxAccounts
    /\ \A e \in Emails : RowsByEmail(Table(resp.kind), e) # {}
    /\ \E jti \in DOMAIN tokens : TokenAuthenticates(jti, resp.kind)

\* C29: add_comment and replace_comment_text are all-or-nothing for every
\* text: a request that is not answered 200 leaves the comments as they were.
C29_CommentsAllOrNothing ==
    [][(\/ /\ resp'.op = "add"
           /\ AddComment(resp'.user, resp'.promo, resp'.request[1])
        \/ /\ resp'.op = "put"
           /\ PutComment(resp'.user, resp'.promo, resp'.comment, resp'.request[1]))
       => (resp'.status # 200 => comments' = comments)]_vars

\* C30: a sign-up or a sign-in of principal P changes no whitelist set but
\* the one keyed by P's kind and P's id.
C30_OnlyOwnWhitelistSet ==
    [][\A k \in WhitelistKeys :
          whitelist'[k] # whitelist[k]
              => \E s \in Slots :
                    /\ SignUpAdd(s) \/ SignInFlush(s) \/ SignInAdd(s)
                    /\ k = WhitelistKey(reqs[s].id, reqs[s].kind)]_vars

\* User 1 has signed in again: its set holds the new token alone, while
\* company 1 and user 2 still have the sessions they had.
C30_Witness ==
    /\ resp.op = "signin" /\ resp.status = 200
    /\ resp.kind = "user" /\ resp.id = 1
    /\ whitelist[WhitelistKey(1, "user")] = {resp.jti}
    /\ resp.jti > 1
    /\ \/ whitelist[WhitelistKey(1, "company")] # {}
       \/ whitelist[WhitelistKey(2, "user")] # {}


====
